---------------------------- MODULE Spec2Model ----------------------------
(***************************************************************************)
(* A model of dev-setup/src/release_maker/release_maker.py: the version    *)
(* arithmetic (bump_version), the planner (apply_version_bump_to_file),    *)
(* the directory walk with its repository stack (apply_version_bump), the  *)
(* staged writer (write_results), the tag publisher (write_tags) and main. *)
(*                                                                         *)
(* Strings are sequences of one-character strings, so that parsing with    *)
(* VERSION_PATTERN and formatting with an f-string are computed and are    *)
(* not the identity.  Paths are directories of a fixed skeleton tree; a    *)
(* manifest is the file pyproject.toml of a directory.                     *)
(***************************************************************************)
EXTENDS Integers, Sequences, FiniteSets, TLC

VARIABLES
    \* ---- harness of the pure functions (SpecBump, SpecFile)
    input,            \* arguments of the call under examination
    output,           \* its outcome, or Pending
    \* ---- the world: file system and repositories
    isRepo,           \* isRepo[d]: directory d is a repository root
    manifest,         \* manifest[d]: the file d/pyproject.toml
    tmpfile,          \* tmpfile[d]: the file d/pyproject.toml.tmp
    dirty,            \* dirty[d]: repository d has uncommitted or untracked files
    localTags,        \* localTags[d]: tags of repository d
    remoteTags,       \* remoteTags[d]: tags of the remote of repository d
    rev,              \* the order in which os.walk lists the sub-directories
    \* ---- the program
    pc,               \* position in main
    args,             \* the parsed command line
    srcIdx,           \* index of the source the loop of apply_version_bump is at
    queue,            \* the directories os.walk has still to hand to the inner loop
    git_repo_stack,   \* apply_version_bump's git_repo_stack
    results,          \* the list of VersionBumpResult
    found,            \* source_toml_found_at (0: None)
    err,              \* the exception that ended the run ("" while none)
    had_write_errors, \* write_results' flag
    temp_files,       \* write_results' temp_files
    success_count,    \* write_results' success_count
    idx,              \* index of the loop over results the program is in
    rename_log,       \* every os.replace attempted, in order, with its outcome
    opened,           \* directories whose .tmp file was opened for writing
    git_ops,          \* git commands issued, in order
    origin,           \* origin[i]: index of the source results[i] was planned for
    remove_failed,    \* directories whose .tmp file the cleanup failed to remove
    observed          \* what the last step observed (stack before and after, ...)

hvars == <<input, output>>
wvars == <<isRepo, manifest, tmpfile, dirty, localTags, remoteTags, rev>>
pvars == <<pc, args, srcIdx, queue, git_repo_stack, results, found, err,
           had_write_errors, temp_files, success_count, idx, rename_log,
           opened, git_ops, origin, remove_failed, observed>>
vars == <<hvars, wvars, pvars>>

---------------------------------------------------------------------------
(* Strings                                                                 *)

\* Longest version string the harness of bump_version is given.
MaxStrLen == 6

Digits == <<"0", "1", "2", "3", "4", "5", "6", "7", "8", "9">>

DigitChars == {Digits[i] : i \in 1..10}

\* The characters the harness builds its strings from: two digits (leading
\* zeros and carries happen), the separator, a letter, and a line feed.
Alphabet == {"0", "9", ".", "v", "\n"}

IsDigit(c) == c \in DigitChars

\* The value of one digit character (int of a one-character string).
DigitValue(c) == (CHOOSE i \in 1..10 : Digits[i] = c) - 1

Strings(n) == UNION {[1..k -> Alphabet] : k \in 0..n}

Str3(a, b, c) == a \o <<".">> \o b \o <<".">> \o c

\* int(s) for a string of digits, as map(int, match.groups()) computes it.
RECURSIVE ParseInt(_)
ParseInt(s) ==
    IF s = <<>> THEN 0
    ELSE 10 * ParseInt(SubSeq(s, 1, Len(s) - 1)) + DigitValue(s[Len(s)])

\* The f-string rendering {n} of a non-negative int: decimal, no leading zeros.
RECURSIVE FormatInt(_)
FormatInt(n) ==
    IF n < 10 THEN <<Digits[n + 1]>>
    ELSE FormatInt(n \div 10) \o <<Digits[(n % 10) + 1]>>

\* The pieces of s between its dots (as a regex scanning for \. would cut it).
RECURSIVE SplitDots(_)
SplitDots(s) ==
    IF \A i \in 1..Len(s) : s[i] # "."
    THEN <<s>>
    ELSE LET i == CHOOSE k \in 1..Len(s) :
                      s[k] = "." /\ \A j \in 1..(k - 1) : s[j] # "."
         IN  <<SubSeq(s, 1, i - 1)>> \o SplitDots(SubSeq(s, i + 1, Len(s)))

AllDigits(s) == s # <<>> /\ \A i \in 1..Len(s) : IsDigit(s[i])

\* Where "$" of a pattern compiled without re.MULTILINE matches: at the end of
\* the string, and just before a line feed that is the last character.
DollarBody(s) ==
    IF s # <<>> /\ s[Len(s)] = "\n" THEN SubSeq(s, 1, Len(s) - 1) ELSE s

\* VERSION_PATTERN.match(version): the three groups, or <<>> for None.
\* \d+ cannot match a line feed, so a match that ends before a final line
\* feed is the only one there can be for a string that ends with one.
VersionMatch(version) ==
    LET parts == SplitDots(DollarBody(version))
    IN  IF Len(parts) = 3 /\ \A i \in 1..3 : AllDigits(parts[i])
        THEN parts
        ELSE <<>>

Returned(v) == [raised |-> "", value |-> v]

Raised(e) == [raised |-> e, value |-> <<>>]

ErrVersionFormat == "ValueError: Invalid version format"

ErrBumpLevel == "ValueError: Invalid bump level"

\* bump_version with a fault: the minor bump keeps the patch component.
BumpVersionMutantKeepPatch(version, bump_level) ==
    LET m == VersionMatch(version) IN
    IF m = <<>> THEN Raised(ErrVersionFormat)
    ELSE LET major == ParseInt(m[1])
             minor == ParseInt(m[2])
             patch == ParseInt(m[3])
         IN  CASE bump_level = "major" ->
                    Returned(Str3(FormatInt(major + 1), <<"0">>, <<"0">>))
               [] bump_level = "minor" ->
                    Returned(Str3(FormatInt(major), FormatInt(minor + 1), FormatInt(patch)))
               [] bump_level = "patch" ->
                    Returned(Str3(FormatInt(major), FormatInt(minor), FormatInt(patch + 1)))
               [] OTHER -> Raised(ErrBumpLevel)

\* bump_version(version, bump_level)
BumpVersion(version, bump_level) ==
    LET m == VersionMatch(version) IN
    IF m = <<>> THEN Raised(ErrVersionFormat)
    ELSE LET major == ParseInt(m[1])
             minor == ParseInt(m[2])
             patch == ParseInt(m[3])
         IN  CASE bump_level = "major" ->
                    Returned(Str3(FormatInt(major + 1), <<"0">>, <<"0">>))
               [] bump_level = "minor" ->
                    Returned(Str3(FormatInt(major), FormatInt(minor + 1), <<"0">>))
               [] bump_level = "patch" ->
                    Returned(Str3(FormatInt(major), FormatInt(minor), FormatInt(patch + 1)))
               [] OTHER -> Raised(ErrBumpLevel)

\* The values --bump-level is given in the model; "other" stands for every
\* value that is none of the three names (None included, the default).
Levels == {"major", "minor", "patch", "other"}

---------------------------------------------------------------------------
(* Manifests and plans                                                     *)

\* A document is a function from its top-level keys to tables; a table is a
\* function from its keys to strings.  {} of Python is the empty function.
EmptyTable == <<>>

Has(t, k) == k \in DOMAIN t

\* dict.get(k, None), with None rendered as the empty value: both are falsy.
Get(t, k) == IF Has(t, k) THEN t[k] ELSE <<>>

Tag(version) == <<"v">> \o version

NoneTags == [none |-> TRUE, tags |-> {}]

SomeTags(S) == [none |-> FALSE, tags |-> S]

NoPlan ==
    [file_path |-> 0, toml_result |-> EmptyTable, old_version |-> <<>>,
     new_version |-> <<>>, git_repo |-> 0, all_tags |-> NoneTags,
     fetched_tags |-> NoneTags]

ErrNoProject == "RuntimeError: No project section found"

ErrNoVersion == "RuntimeError: No version found"

ErrUnpack == "ValueError: not enough values to unpack"

\* fetch_and_get_fetched_tags(repo_path, verbose).  ok: Repo(repo_path) opens
\* and the fetch succeeds.  Returns the pair, or [] (rendered <<>>) after an
\* exception.  Repository 0 is the one Repo(None) opens, the working directory.
FetchAndGetFetchedTags(repo_path, ok) ==
    IF ok
    THEN LET original_local_tags == localTags[repo_path]
             updated_local_tags == localTags[repo_path] \cup remoteTags[repo_path]
         IN  <<updated_local_tags, updated_local_tags \ original_local_tags>>
    ELSE <<>>

\* apply_version_bump_to_file with a fault: the document is rebuilt from
\* the project table alone, so every other top-level table is lost.
ApplyVersionBumpToFileMutantDropTables(file, doc, bump_level, git_repo, fetch_remote_tags, fetchOk) ==
    LET project_dir == Get(doc, "project")
        old_version == Get(project_dir, "version")
        bumped == BumpVersion(old_version, bump_level)
    IN  IF project_dir = EmptyTable THEN [raised |-> ErrNoProject, plan |-> NoPlan]
        ELSE IF old_version = <<>> THEN [raised |-> ErrNoVersion, plan |-> NoPlan]
        ELSE IF bumped.raised # "" THEN [raised |-> bumped.raised, plan |-> NoPlan]
        ELSE [raised |-> "",
              plan |-> [file_path |-> file,
                        toml_result |->
                            [k \in {"project"} |->
                                [project_dir EXCEPT !["version"] = bumped.value]],
                        old_version |-> old_version,
                        new_version |-> bumped.value,
                        git_repo |-> git_repo,
                        all_tags |-> NoneTags,
                        fetched_tags |-> NoneTags]]

\* apply_version_bump_to_file(file, bump_level, git_repo, fetch_remote_tags,
\* verbose), doc being what tomli.load reads from file.
ApplyVersionBumpToFile(file, doc, bump_level, git_repo, fetch_remote_tags, fetchOk) ==
    LET fetched == FetchAndGetFetchedTags(git_repo, fetchOk)
        project_dir == Get(doc, "project")
        old_version == Get(project_dir, "version")
        bumped == BumpVersion(old_version, bump_level)
    IN  IF fetch_remote_tags /\ Len(fetched) # 2
        THEN [raised |-> ErrUnpack, plan |-> NoPlan]
        ELSE IF project_dir = EmptyTable THEN [raised |-> ErrNoProject, plan |-> NoPlan]
        ELSE IF old_version = <<>> THEN [raised |-> ErrNoVersion, plan |-> NoPlan]
        ELSE IF bumped.raised # "" THEN [raised |-> bumped.raised, plan |-> NoPlan]
        ELSE [raised |-> "",
              plan |-> [file_path |-> file,
                        toml_result |->
                            [doc EXCEPT !["project"] =
                                [project_dir EXCEPT !["version"] = bumped.value]],
                        old_version |-> old_version,
                        new_version |-> bumped.value,
                        git_repo |-> git_repo,
                        all_tags |->
                            IF fetch_remote_tags THEN SomeTags(fetched[1]) ELSE NoneTags,
                        fetched_tags |->
                            IF fetch_remote_tags THEN SomeTags(fetched[2]) ELSE NoneTags]]

\* VersionBumpResult.new_version_tag_already_exists: "self.all_tags and ...",
\* so None and the empty set both answer falsy.
NewVersionTagAlreadyExists(result) ==
    /\ ~result.all_tags.none
    /\ result.all_tags.tags # {}
    /\ Tag(result.new_version) \in result.all_tags.tags

---------------------------------------------------------------------------
(* The world: a directory tree, its manifests and its repositories         *)

\* The directories, by their parent (0: the directory is a root of the
\* skeleton): 1 parent, 2 parent/sub, 3 parent/sub/pkgA, 4 parent/pkgB.
Parent == <<0, 1, 2, 1>>

Dirs == DOMAIN Parent

\* Repository 0 is what Repo(None) opens; None is 0 on the stack as well.
Repos0 == Dirs \cup {0}

RECURSIVE Ascending(_)
Ascending(S) ==
    IF S = {} THEN <<>>
    ELSE LET m == CHOOSE x \in S : \A y \in S : x <= y
         IN  <<m>> \o Ascending(S \ {m})

Reverse(q) == [i \in 1..Len(q) |-> q[Len(q) + 1 - i]]

\* The sub-directories of d in the order os.walk lists them (the order of
\* os.scandir, which is not specified: rev picks one of the two orders).
ChildSeq(d) ==
    LET asc == Ascending({c \in Dirs : Parent[c] = d})
    IN  IF rev THEN Reverse(asc) ELSE asc

RECURSIVE Concat(_)
Concat(qq) == IF qq = <<>> THEN <<>> ELSE Head(qq) \o Concat(Tail(qq))

\* The tops os.walk(d) yields, top-down: d, then the walk of each child.
RECURSIVE WalkTops(_)
WalkTops(d) ==
    <<d>> \o Concat([i \in 1..Len(ChildSeq(d)) |-> WalkTops(ChildSeq(d)[i])])

\* The directories the inner loop "for d in dirs" sees over a whole
\* os.walk(source), in order: the children of each top, top after top.
WalkDirs(source) ==
    Concat([i \in 1..Len(WalkTops(source)) |-> ChildSeq(WalkTops(source)[i])])

\* A source of the command line: a directory, the path of a manifest file,
\* or a path that does not exist.
DirSource(d) == [kind |-> "dir", dir |-> d]

FileSource(d) == [kind |-> "file", dir |-> d]

MissingSource == [kind |-> "missing", dir |-> 0]

\* os.path.isdir(source)
IsDir(source) == source.kind = "dir"

NoFile == [exists |-> FALSE, doc |-> EmptyTable]

File(doc) == [exists |-> TRUE, doc |-> doc]

\* Repo(path) opens (search_parent_directories is False by default in
\* GitPython, as is_git_repo spells out): path itself is a repository root.
\* The path of a file never is one: Repo raises InvalidGitRepositoryError.
RepoOpens(path) == path.kind = "dir" /\ isRepo[path.dir]

\* is_git_repo(path) for a directory
IsGitRepo(d) == RepoOpens(DirSource(d))

\* is_repo_clean(path)[0]
IsRepoClean(path) ==
    IF RepoOpens(path) THEN ~dirty[path.dir] ELSE TRUE

ErrIndex == "IndexError: list index out of range"

ErrNoManifest == "RuntimeError: No pyproject.toml found"

\* "if git_repo_stack: git_repo_stack.pop()" of both finally blocks
PopIfAny(stack) ==
    IF stack = <<>> THEN stack ELSE SubSeq(stack, 1, Len(stack) - 1)

\* What one directory costs the walk, up to the finally: the push when it is
\* a repository root, and the plan of its manifest when it has one, made
\* with git_repo_stack[-1].  tags: the local tags after the fetch, if any.
VisitBody(d, stack, fetchOk) ==
    LET pushed == IF IsGitRepo(d) THEN Append(stack, d) ELSE stack
        top == IF pushed = <<>> THEN 0 ELSE pushed[Len(pushed)]
        r == ApplyVersionBumpToFile(d, manifest[d].doc, args.bump_level, top,
                                    args.fetch_remote_tags, fetchOk)
        fetching == manifest[d].exists /\ pushed # <<>>
                    /\ args.fetch_remote_tags /\ fetchOk
    IN  [stack |-> pushed,
         raised |-> IF ~manifest[d].exists THEN ""
                    ELSE IF pushed = <<>> THEN ErrIndex
                    ELSE r.raised,
         planned |-> manifest[d].exists /\ pushed # <<>> /\ r.raised = "",
         plan |-> r.plan,
         tags |-> IF fetching
                  THEN [localTags EXCEPT ![top] = localTags[top] \cup remoteTags[top]]
                  ELSE localTags,
         fetch_calls |-> IF manifest[d].exists /\ pushed # <<>>
                            /\ args.fetch_remote_tags
                         THEN <<top>> ELSE <<>>]

---------------------------------------------------------------------------
(* apply_version_bump                                                      *)

\* A git command issued: ok is whether it succeeded; existed, for "tag",
\* whether the repository had the tag when the command was issued.
GitOp(op, repo, file, tag, ok, existed) ==
    [op |-> op, repo |-> repo, file |-> file, tag |-> tag, ok |-> ok,
     existed |-> existed]

FetchOps(calls, ok) ==
    [i \in 1..Len(calls) |-> GitOp("fetch", calls[i], 0, <<>>, ok, FALSE)]

walkFrame == <<hvars, isRepo, manifest, tmpfile, dirty, remoteTags, rev, args,
               had_write_errors, temp_files, success_count, idx, rename_log,
               opened, remove_failed>>

\* One turn of "for source in sources" up to the os.walk loop: a source that
\* is no directory is passed over; for a directory, the push, the manifest
\* of the source itself, and on an exception the outer finally.
EnterSource ==
    /\ pc = "sources"
    /\ srcIdx <= Len(args.sources)
    /\ LET source == args.sources[srcIdx] IN
       IF ~IsDir(source)
       THEN /\ srcIdx' = srcIdx + 1
            /\ UNCHANGED <<pc, queue, git_repo_stack, results, found, err,
                           localTags, git_ops, origin, observed>>
       ELSE \E fetchOk \in BOOLEAN :
            LET b == VisitBody(source.dir, git_repo_stack, fetchOk) IN
            /\ observed' = [dir |-> source.dir, before |-> git_repo_stack,
                            pushed |-> IsGitRepo(source.dir)]
            /\ localTags' = b.tags
            /\ git_ops' = git_ops \o FetchOps(b.fetch_calls, fetchOk)
            /\ IF b.raised # ""
               THEN /\ git_repo_stack' = PopIfAny(b.stack)
                    /\ err' = b.raised
                    /\ pc' = "raised"
                    /\ UNCHANGED <<srcIdx, queue, results, origin, found>>
               ELSE /\ git_repo_stack' = b.stack
                    /\ results' = IF b.planned THEN Append(results, b.plan) ELSE results
                    /\ origin' = IF b.planned THEN Append(origin, srcIdx) ELSE origin
                    /\ found' = IF b.planned THEN source.dir ELSE 0
                    /\ queue' = WalkDirs(source.dir)
                    /\ pc' = "walk"
                    /\ UNCHANGED <<srcIdx, err>>
    /\ UNCHANGED walkFrame

\* One turn of "for d in dirs", with its finally; an exception goes through
\* the outer finally as well and ends apply_version_bump.
VisitDir ==
    /\ pc = "walk"
    /\ queue # <<>>
    /\ \E fetchOk \in BOOLEAN :
       LET d == Head(queue)
           b == VisitBody(d, git_repo_stack, fetchOk)
       IN  /\ observed' = [dir |-> d, before |-> git_repo_stack,
                           pushed |-> IsGitRepo(d)]
           /\ localTags' = b.tags
           /\ git_ops' = git_ops \o FetchOps(b.fetch_calls, fetchOk)
           /\ IF b.raised # ""
              THEN /\ git_repo_stack' = PopIfAny(PopIfAny(b.stack))
                   /\ err' = b.raised
                   /\ pc' = "raised"
                   /\ UNCHANGED <<queue, results, origin, found>>
              ELSE /\ git_repo_stack' = PopIfAny(b.stack)
                   /\ results' = IF b.planned THEN Append(results, b.plan) ELSE results
                   /\ origin' = IF b.planned THEN Append(origin, srcIdx) ELSE origin
                   /\ found' = IF b.planned THEN d ELSE found
                   /\ queue' = Tail(queue)
                   /\ UNCHANGED <<pc, err>>
    /\ UNCHANGED <<srcIdx>>
    /\ UNCHANGED walkFrame

\* The end of os.walk for a source: "if not source_toml_found_at: raise",
\* and the outer finally.
LeaveSource ==
    /\ pc = "walk"
    /\ queue = <<>>
    /\ git_repo_stack' = PopIfAny(git_repo_stack)
    /\ IF found = 0
       THEN /\ err' = ErrNoManifest
            /\ pc' = "raised"
            /\ UNCHANGED srcIdx
       ELSE /\ srcIdx' = srcIdx + 1
            /\ pc' = "sources"
            /\ UNCHANGED err
    /\ UNCHANGED <<queue, results, found, localTags, git_ops, origin, observed>>
    /\ UNCHANGED walkFrame

\* "return results"
ReturnResults ==
    /\ pc = "sources"
    /\ srcIdx > Len(args.sources)
    /\ pc' = "planned"
    /\ UNCHANGED <<srcIdx, queue, git_repo_stack, results, found, err,
                   localTags, git_ops, origin, observed>>
    /\ UNCHANGED walkFrame

NextWalk == EnterSource \/ VisitDir \/ LeaveSource \/ ReturnResults

---------------------------------------------------------------------------
(* main, write_results and write_tags                                      *)

\* Failed renames the log keeps (a rename may fail any number of times).
MaxRenameFailures == 2

ErrStage == "RuntimeError: Failed to write one or more temporary files"

ErrReplace == "OSError: os.replace failed"

ErrGit == "GitCommandError"

\* The path of a manifest, as result.file_path holds it
FilePath(d) == FileSource(d)

Range(q) == {q[i] : i \in 1..Len(q)}

\* An entry of temp_files: the manifest the temporary file is for, and the
\* place in results of the plan it was written from.
Staged(d, plan) == [target |-> d, plan |-> plan]

Targets(files) == {files[i].target : i \in 1..Len(files)}

\* The finally of write_results with a fault: nothing is removed.
CleanupMutantNone(files, kept) == tmpfile

\* The finally of write_results: os.remove of every file still listed in
\* temp_files, best effort; kept are the files whose removal fails.
Cleanup(files, kept) ==
    [d \in Dirs |-> IF d \in Targets(files) \ kept THEN NoFile ELSE tmpfile[d]]

\* main's test with a fault: the dry-run flag is not looked at.
SkipsWritingMutantNever == FALSE

\* main's test before write_results and write_tags
SkipsWriting == args.dry_run

\* After apply_version_bump: the report, then "if not args.dry_run".
\* temp_files and had_write_errors are those write_results starts with.
Report ==
    /\ pc = "planned"
    /\ IF SkipsWriting
       THEN pc' = "done" /\ UNCHANGED idx
       ELSE pc' = "precheck" /\ idx' = 1
    /\ UNCHANGED <<hvars, wvars, args, srcIdx, queue, git_repo_stack, results,
                   found, err, had_write_errors, temp_files, success_count,
                   rename_log, opened, git_ops, origin, remove_failed,
                   observed>>

\* One turn of the first loop of write_results: is_repo_clean(result.file_path)
CheckClean ==
    /\ pc = "precheck"
    /\ idx <= Len(results)
    /\ had_write_errors' =
           (had_write_errors \/ ~IsRepoClean(FilePath(results[idx].file_path)))
    /\ idx' = idx + 1
    /\ UNCHANGED <<hvars, wvars, pc, args, srcIdx, queue, git_repo_stack,
                   results, found, err, temp_files, success_count, rename_log,
                   opened, git_ops, origin, remove_failed,
                   observed>>

PrecheckEnd ==
    /\ pc = "precheck"
    /\ idx > Len(results)
    /\ pc' = "stage"
    /\ idx' = 1
    /\ UNCHANGED <<hvars, wvars, args, srcIdx, queue, git_repo_stack, results,
                   found, err, had_write_errors, temp_files, success_count,
                   rename_log, opened, git_ops, origin, remove_failed,
                   observed>>

\* One turn of the staging loop: open(temp_file, "wb") and tomli_w.dump.
\* "open": open fails, no file; "dump": the file is created and the dump
\* fails, the file stays and is not listed in temp_files.
StageFile ==
    /\ pc = "stage"
    /\ idx <= Len(results)
    /\ \E outcome \in {"ok", "open", "dump"} :
       LET d == results[idx].file_path IN
       /\ tmpfile' = CASE outcome = "ok" ->
                            [tmpfile EXCEPT ![d] = File(results[idx].toml_result)]
                       [] outcome = "dump" ->
                            [tmpfile EXCEPT ![d] = File(EmptyTable)]
                       [] OTHER -> tmpfile
       /\ opened' = IF outcome = "open" THEN opened ELSE opened \cup {d}
       /\ temp_files' = IF outcome = "ok"
                        THEN Append(temp_files, Staged(d, idx))
                        ELSE temp_files
       /\ had_write_errors' = (had_write_errors \/ outcome # "ok")
    /\ idx' = idx + 1
    /\ UNCHANGED <<hvars, isRepo, manifest, dirty, localTags, remoteTags, rev,
                   pc, args, srcIdx, queue, git_repo_stack, results, found,
                   err, success_count, rename_log, git_ops, origin, remove_failed,
                   observed>>

\* "if had_write_errors: raise RuntimeError", and the finally when it raises
StageEnd ==
    /\ pc = "stage"
    /\ idx > Len(results)
    /\ IF had_write_errors
       THEN /\ \E kept \in SUBSET Targets(temp_files) :
                   /\ tmpfile' = Cleanup(temp_files, kept)
                   /\ remove_failed' = kept
            /\ err' = ErrStage
            /\ pc' = "raised"
            /\ UNCHANGED success_count
       ELSE /\ success_count' = 0
            /\ pc' = "replace"
            /\ UNCHANGED <<tmpfile, err, remove_failed>>
    /\ UNCHANGED <<hvars, isRepo, manifest, dirty, localTags, remoteTags, rev,
                   args, srcIdx, queue, git_repo_stack, results, found,
                   had_write_errors, temp_files, idx, rename_log, opened,
                   git_ops, origin, observed>>

Failures(log) == Cardinality({i \in 1..Len(log) : ~log[i].ok})

\* An os.replace that was attempted: its target, the place in results of
\* the plan, and whether it succeeded.
LogRename(log, d, plan, ok) ==
    IF ok \/ Failures(log) < MaxRenameFailures
    THEN Append(log, [target |-> d, plan |-> plan, ok |-> ok])
    ELSE log

\* The except clause with a fault: it re-raises after every failed rename.
ReplaceGivesUpMutantAlways(count) == TRUE

\* What the except clause of the rename loop does after a failed os.replace:
\* TRUE when it re-raises ("if success_count == 0: raise").
ReplaceGivesUp(count) == count = 0

\* The rename loop with a fault: it takes the first staged file.
ReplaceIndexMutantFirst(files) == 1

\* The place in temp_files of the file the rename loop takes: temp_files[-1]
ReplaceIndex(files) == Len(files)

RemoveAt(files, i) == SubSeq(files, 1, i - 1) \o SubSeq(files, i + 1, Len(files))

\* The try body of one turn of "while temp_files": os.replace of
\* temp_files[-1] and, when it succeeds, temp_files.pop().  It cannot
\* succeed when the temporary file is not there.
ReplaceFile ==
    /\ pc = "replace"
    /\ temp_files # <<>>
    /\ LET i == ReplaceIndex(temp_files)
           d == temp_files[i].target
       IN  \E ok \in {b \in BOOLEAN : b => tmpfile[d].exists} :
           /\ rename_log' = LogRename(rename_log, d, temp_files[i].plan, ok)
           /\ IF ok
              THEN /\ manifest' = [manifest EXCEPT ![d] = tmpfile[d]]
                   /\ tmpfile' = [tmpfile EXCEPT ![d] = NoFile]
                   /\ temp_files' = RemoveAt(temp_files, i)
                   /\ success_count' = success_count + 1
                   /\ UNCHANGED pc
              ELSE /\ pc' = "replace_failed"
                   /\ UNCHANGED <<manifest, tmpfile, temp_files, success_count>>
    /\ UNCHANGED <<hvars, isRepo, dirty, localTags, remoteTags, rev, args,
                   srcIdx, queue, git_repo_stack, results, found, err,
                   had_write_errors, idx, opened, git_ops, origin,
                   remove_failed, observed>>

\* The except clause of that turn: "if success_count == 0: raise" with the
\* finally it runs into; otherwise the loop goes round again, temp_files as
\* it was.
ReplaceFailed ==
    /\ pc = "replace_failed"
    /\ IF ReplaceGivesUp(success_count)
       THEN /\ \E kept \in SUBSET Targets(temp_files) :
                   /\ tmpfile' = Cleanup(temp_files, kept)
                   /\ remove_failed' = kept
            /\ err' = ErrReplace
            /\ pc' = "raised"
       ELSE /\ pc' = "replace"
            /\ UNCHANGED <<tmpfile, err, remove_failed>>
    /\ UNCHANGED <<hvars, isRepo, manifest, dirty, localTags, remoteTags, rev,
                   args, srcIdx, queue, git_repo_stack, results, found,
                   had_write_errors, temp_files, success_count, idx,
                   rename_log, opened, git_ops, origin, observed>>

ReplaceEnd ==
    /\ pc = "replace"
    /\ temp_files = <<>>
    /\ pc' = "commit"
    /\ idx' = 1
    /\ UNCHANGED <<hvars, wvars, args, srcIdx, queue, git_repo_stack, results,
                   found, err, had_write_errors, temp_files, success_count,
                   rename_log, opened, git_ops, origin, remove_failed,
                   observed>>

\* The commit loop with a fault: the commit is never pushed.
CommitOpsMutantNoPush(result, outcome) ==
    LET add == GitOp("add", result.git_repo, result.file_path, <<>>,
                     outcome # "add", FALSE)
        commit == GitOp("commit", result.git_repo, result.file_path,
                        Tag(result.new_version), outcome # "commit", FALSE)
    IN  IF outcome = "add" THEN <<add>> ELSE <<add, commit>>

\* The git commands of one turn of the commit loop, for an outcome: every
\* command up to the one that fails.
CommitOps(result, outcome) ==
    LET add == GitOp("add", result.git_repo, result.file_path, <<>>,
                     outcome # "add", FALSE)
        commit == GitOp("commit", result.git_repo, result.file_path,
                        Tag(result.new_version), outcome # "commit", FALSE)
        push == GitOp("push", result.git_repo, result.file_path, <<>>,
                      outcome # "push", FALSE)
    IN  CASE outcome = "add" -> <<add>>
          [] outcome = "commit" -> <<add, commit>>
          [] OTHER -> <<add, commit, push>>

\* One turn of "for result in results" of the commit loop; a git command
\* that fails raises out of write_results (temp_files is empty by now).
CommitResult ==
    /\ pc = "commit"
    /\ idx <= Len(results)
    /\ IF results[idx].git_repo = 0
       THEN /\ idx' = idx + 1
            /\ UNCHANGED <<pc, err, git_ops>>
       ELSE \E outcome \in {"ok", "add", "commit", "push"} :
            /\ git_ops' = git_ops \o CommitOps(results[idx], outcome)
            /\ IF outcome = "ok"
               THEN idx' = idx + 1 /\ UNCHANGED <<pc, err>>
               ELSE pc' = "raised" /\ err' = ErrGit /\ UNCHANGED idx
    /\ UNCHANGED <<hvars, wvars, args, srcIdx, queue, git_repo_stack, results,
                   found, had_write_errors, temp_files, success_count,
                   rename_log, opened, origin, remove_failed,
                   observed>>

\* write_results returns; main calls write_tags, whatever args.git_tag is.
CommitEnd ==
    /\ pc = "commit"
    /\ idx > Len(results)
    /\ pc' = "tags"
    /\ idx' = 1
    /\ UNCHANGED <<hvars, wvars, args, srcIdx, queue, git_repo_stack, results,
                   found, err, had_write_errors, temp_files, success_count,
                   rename_log, opened, git_ops, origin, remove_failed,
                   observed>>

\* write_tags' test before it creates a tag
TagIsSkipped(result) == NewVersionTagAlreadyExists(result)

\* One turn of the loop of write_tags.  "git tag" fails when the repository
\* has the tag; the push of the tag may fail.
TagResult ==
    /\ pc = "tags"
    /\ idx <= Len(results)
    /\ LET result == results[idx]
           repo == result.git_repo
           tag == Tag(result.new_version)
       IN  IF repo = 0 \/ TagIsSkipped(result)
           THEN /\ idx' = idx + 1
                /\ UNCHANGED <<pc, err, git_ops, localTags, remoteTags>>
           ELSE IF tag \in localTags[repo]
           THEN /\ git_ops' = Append(git_ops, GitOp("tag", repo, 0, tag, FALSE, TRUE))
                /\ pc' = "raised"
                /\ err' = ErrGit
                /\ UNCHANGED <<idx, localTags, remoteTags>>
           ELSE \E pushOk \in BOOLEAN :
                /\ git_ops' = git_ops \o
                       <<GitOp("tag", repo, 0, tag, TRUE, FALSE),
                         GitOp("push_tag", repo, 0, tag, pushOk, FALSE)>>
                /\ localTags' = [localTags EXCEPT ![repo] = @ \cup {tag}]
                /\ IF pushOk
                   THEN /\ remoteTags' = [remoteTags EXCEPT ![repo] = @ \cup {tag}]
                        /\ idx' = idx + 1
                        /\ UNCHANGED <<pc, err>>
                   ELSE /\ pc' = "raised"
                        /\ err' = ErrGit
                        /\ UNCHANGED <<idx, remoteTags>>
    /\ UNCHANGED <<hvars, isRepo, manifest, tmpfile, dirty, rev, args, srcIdx,
                   queue, git_repo_stack, results, found, had_write_errors,
                   temp_files, success_count, rename_log, opened, origin,
                   remove_failed, observed>>

\* write_tags returns, and main returns 0
TagEnd ==
    /\ pc = "tags"
    /\ idx > Len(results)
    /\ pc' = "done"
    /\ UNCHANGED <<hvars, wvars, args, srcIdx, queue, git_repo_stack, results,
                   found, err, had_write_errors, temp_files, success_count,
                   idx, rename_log, opened, git_ops, origin, remove_failed,
                   observed>>

Next ==
    \/ NextWalk
    \/ Report
    \/ CheckClean
    \/ PrecheckEnd
    \/ StageFile
    \/ StageEnd
    \/ ReplaceFile
    \/ ReplaceFailed
    \/ ReplaceEnd
    \/ CommitResult
    \/ CommitEnd
    \/ TagResult
    \/ TagEnd

---------------------------------------------------------------------------
(* Initial states                                                          *)

\* Longest list of sources the command line is given.
MaxSources == 2

GoodVersion == <<"1", ".", "2", ".", "3">>

GoodDoc ==
    [project |-> [name |-> <<"p">>, version |-> GoodVersion],
     tool |-> [black |-> <<"9">>]]

\* A manifest with no project table.
BadDoc == [tool |-> [black |-> <<"9">>]]

NoTags == [d \in Repos0 |-> {}]

Args(sources, bump_level, dry_run, git_tag, fetch_remote_tags) ==
    [sources |-> sources, bump_level |-> bump_level, dry_run |-> dry_run,
     git_tag |-> git_tag, fetch_remote_tags |-> fetch_remote_tags]

SeqsUpTo(S, n) == UNION {[1..k -> S] : k \in 1..n}

\* main has parsed the command line and is about to call apply_version_bump.
ProgramInit(position, a) ==
    /\ pc = position
    /\ args = a
    /\ srcIdx = 1
    /\ queue = <<>>
    /\ git_repo_stack = <<0>>
    /\ results = <<>>
    /\ found = 0
    /\ err = ""
    /\ had_write_errors = FALSE
    /\ temp_files = <<>>
    /\ success_count = 0
    /\ idx = 0
    /\ rename_log = <<>>
    /\ opened = {}
    /\ git_ops = <<>>
    /\ origin = <<>>
    /\ remove_failed = {}
    /\ observed = [dir |-> 0, before |-> <<>>, pushed |-> FALSE]

HarnessIdle == input = <<>> /\ output = <<>>

WorldIdle ==
    /\ isRepo = [d \in Dirs |-> FALSE]
    /\ manifest = [d \in Dirs |-> NoFile]
    /\ tmpfile = [d \in Dirs |-> NoFile]
    /\ dirty = [d \in Dirs |-> FALSE]
    /\ localTags = NoTags
    /\ remoteTags = NoTags
    /\ rev = FALSE

\* The sources the walk is examined with: directories, the path of a
\* manifest file, and a path that does not exist.
WalkSources == {DirSource(1), DirSource(2), DirSource(4), FileSource(4), MissingSource}

\* Every tree of the skeleton: any directory may be a repository root and
\* may hold a manifest; the manifest of pkgA may lack its project table.
InitWalk ==
    /\ HarnessIdle
    /\ isRepo \in [Dirs -> BOOLEAN]
    /\ manifest \in {m \in [Dirs -> {NoFile, File(GoodDoc), File(BadDoc)}] :
                        \A d \in Dirs : m[d] = File(BadDoc) => d = 3}
    /\ tmpfile = [d \in Dirs |-> NoFile]
    /\ dirty = [d \in Dirs |-> FALSE]
    /\ localTags = NoTags
    /\ remoteTags = NoTags
    /\ rev \in BOOLEAN
    /\ \E sources \in SeqsUpTo(WalkSources, MaxSources), fetch \in BOOLEAN :
           /\ \A i \in 1..Len(sources) :
                  sources[i].kind = "file" => manifest[sources[i].dir].exists
           /\ ProgramInit("sources", Args(sources, "minor", TRUE, FALSE, fetch))

SpecWalk == InitWalk /\ [][NextWalk]_vars

---------------------------------------------------------------------------
(* The pure functions, applied to every input of a bounded set             *)

Pending == [raised |-> "pending", value |-> <<>>]

InitBump ==
    /\ input \in [version : Strings(MaxStrLen), level : Levels]
    /\ output = Pending
    /\ WorldIdle
    /\ ProgramInit("idle", Args(<<>>, "minor", TRUE, FALSE, FALSE))

CallBumpVersion ==
    /\ output = Pending
    /\ output' = BumpVersion(input.version, input.level)
    /\ UNCHANGED <<input, wvars, pvars>>

NextBump == CallBumpVersion

SpecBump == InitBump /\ [][NextBump]_vars

Restrict(f, S) == [k \in S |-> f[k]]

\* Version fields of the documents: well-formed ones, malformed ones, and
\* the empty string.
DocVersions ==
    {GoodVersion, <<"0", ".", "9", ".", "9">>, <<"1", ".", "2">>,
     <<"v", "1", ".", "2", ".", "3">>, <<>>}

\* Documents with and without a project table, a version, and other keys.
DocSet ==
    {Restrict([project |-> Restrict([name |-> <<"p">>, version |-> v,
                                     license |-> <<"m">>], pk),
               tool |-> [black |-> <<"9">>],
               build |-> [requires |-> <<"h">>]], tk) :
        v \in DocVersions,
        pk \in SUBSET {"name", "version", "license"},
        tk \in {{"project"}, {"project", "tool", "build"}, {"tool"}}}

PendingPlan == [raised |-> "pending", plan |-> NoPlan]

InitFile ==
    /\ input \in [doc : DocSet, level : Levels, git_repo : {0, 1}]
    /\ output = PendingPlan
    /\ WorldIdle
    /\ ProgramInit("idle", Args(<<>>, "minor", TRUE, FALSE, FALSE))

CallApplyVersionBumpToFile ==
    /\ output = PendingPlan
    /\ output' = ApplyVersionBumpToFile(1, input.doc, input.level,
                                        input.git_repo, FALSE, TRUE)
    /\ UNCHANGED <<input, wvars, pvars>>

NextFile == CallApplyVersionBumpToFile

SpecFile == InitFile /\ [][NextFile]_vars

---------------------------------------------------------------------------
(* The whole run of main                                                   *)

\* The tag of the version the manifests of the runs of main are bumped to.
NewTag == Tag(BumpVersion(GoodVersion, "minor").value)

MainSources ==
    {<<DirSource(1)>>, <<DirSource(4)>>, <<DirSource(4), DirSource(4)>>}

\* parent is a repository with a manifest in pkgB, and maybe one of its own
\* and one in sub/pkgA; pkgB may be a repository too.  Any repository may be
\* dirty; the tag of the new version may exist already, in every repository
\* or on every remote.
Init ==
    /\ HarnessIdle
    /\ isRepo \in {f \in [Dirs -> BOOLEAN] : f[1] /\ ~f[2] /\ ~f[3]}
    /\ manifest \in {m \in [Dirs -> {NoFile, File(GoodDoc)}] :
                        m[4].exists /\ ~m[2].exists}
    /\ tmpfile = [d \in Dirs |-> NoFile]
    /\ dirty \in {f \in [Dirs -> BOOLEAN] : \A d \in Dirs : f[d] => isRepo[d]}
    /\ \E where \in {"nowhere", "local", "remote"} :
           /\ localTags = [d \in Repos0 |->
                              IF where = "local" /\ d \in Dirs /\ isRepo[d]
                              THEN {NewTag} ELSE {}]
           /\ remoteTags = [d \in Repos0 |->
                               IF where = "remote" /\ d \in Dirs /\ isRepo[d]
                               THEN {NewTag} ELSE {}]
    /\ rev \in BOOLEAN
    /\ \E sources \in MainSources, dry_run, git_tag, fetch \in BOOLEAN :
           ProgramInit("sources", Args(sources, "minor", dry_run, git_tag, fetch))

Spec == Init /\ [][Next]_vars

\* The runs of main that write: parent is the one repository and the one
\* source, clean and without tags, with one to three manifests below it.  The
\* program takes a step whenever it can; nothing is assumed about os.replace
\* or any other call succeeding.
InitLive ==
    /\ HarnessIdle
    /\ isRepo = [d \in Dirs |-> d = 1]
    /\ manifest \in {m \in [Dirs -> {NoFile, File(GoodDoc)}] :
                        m[4].exists /\ ~m[2].exists}
    /\ tmpfile = [d \in Dirs |-> NoFile]
    /\ dirty = [d \in Dirs |-> FALSE]
    /\ localTags = NoTags
    /\ remoteTags = NoTags
    /\ rev \in BOOLEAN
    /\ \E git_tag \in BOOLEAN :
           ProgramInit("sources",
                       Args(<<DirSource(1)>>, "minor", FALSE, git_tag, FALSE))

\* The steps of write_results
WriteResultsStep ==
    \/ CheckClean
    \/ PrecheckEnd
    \/ StageFile
    \/ StageEnd
    \/ ReplaceFile
    \/ ReplaceFailed
    \/ ReplaceEnd
    \/ CommitResult
    \/ CommitEnd

SpecLive == InitLive /\ [][Next]_vars /\ WF_vars(WriteResultsStep)

\* GoodDoc with another version field
DocWithVersion(v) == [GoodDoc EXCEPT !["project"]["version"] = v]

\* Manifests as they come: well-formed; without a project table; with an
\* empty project table; with a project table without a version; with an
\* empty version, a version of two components, and a version that ends with
\* a line feed.
ManifestDocs ==
    {GoodDoc,
     BadDoc,
     [project |-> EmptyTable, tool |-> [black |-> <<"9">>]],
     [project |-> [name |-> <<"p">>], tool |-> [black |-> <<"9">>]],
     DocWithVersion(<<>>),
     DocWithVersion(<<"1", ".", "2">>),
     DocWithVersion(GoodVersion \o <<"\n">>)}

\* The runs of main that write, over manifests of every kind: every
\* directory is a repository root, parent is the one source, and parent/pkgB
\* and maybe parent have a manifest.
InitMalformed ==
    /\ HarnessIdle
    /\ isRepo = [d \in Dirs |-> TRUE]
    /\ manifest \in {m \in [Dirs -> {NoFile} \cup {File(doc) : doc \in ManifestDocs}] :
                        m[4].exists /\ ~m[2].exists /\ ~m[3].exists}
    /\ tmpfile = [d \in Dirs |-> NoFile]
    /\ dirty = [d \in Dirs |-> FALSE]
    /\ localTags = NoTags
    /\ remoteTags = NoTags
    /\ rev \in BOOLEAN
    /\ \E git_tag \in BOOLEAN :
           ProgramInit("sources",
                       Args(<<DirSource(1)>>, "minor", FALSE, git_tag, FALSE))

SpecMalformed == InitMalformed /\ [][Next]_vars

---------------------------------------------------------------------------
(* Properties                                                              *)

\* result's manifest holds the plan's new document
Bumped(result) == manifest[result.file_path] = File(result.toml_result)

\* result's manifest holds what it held when it was planned: the plan's
\* document with the old version in place of the new one
Untouched(result) ==
    manifest[result.file_path] =
        File([result.toml_result EXCEPT !["project"]["version"] = result.old_version])

\* write_results was called and has returned or raised
WriteResultsFinished ==
    /\ ~args.dry_run
    /\ \/ pc \in {"tags", "done"}
       \/ pc = "raised" /\ err \in {ErrStage, ErrReplace, ErrGit}

C2_DirtyGate ==
    (\E i \in 1..Len(results) :
         results[i].git_repo # 0 /\ dirty[results[i].git_repo])
    => /\ \A i \in 1..Len(results) : Untouched(results[i])
       /\ \A k \in 1..Len(git_ops) : git_ops[k].op \notin {"commit", "push"}

\* s is three runs of digits separated by two dots, and nothing else
IsVersion(s) ==
    \E i, j \in 1..Len(s) :
        /\ i < j /\ s[i] = "." /\ s[j] = "."
        /\ AllDigits(SubSeq(s, 1, i - 1))
        /\ AllDigits(SubSeq(s, i + 1, j - 1))
        /\ AllDigits(SubSeq(s, j + 1, Len(s)))

\* The three numbers of a version string
Components(s) ==
    LET i == CHOOSE k \in 1..Len(s) : s[k] = "." /\ \A m \in 1..(k - 1) : s[m] # "."
        j == CHOOSE k \in 1..Len(s) : s[k] = "." /\ \A m \in (k + 1)..Len(s) : s[m] # "."
    IN  <<ParseInt(SubSeq(s, 1, i - 1)), ParseInt(SubSeq(s, i + 1, j - 1)),
          ParseInt(SubSeq(s, j + 1, Len(s)))>>

\* C3: for a version X.Y.Z and a level of major, minor, patch, bump_version
\* returns a version whose component named by the level is one more, whose
\* components below it are zero and whose components above it are unchanged.
C3_BumpArithmetic ==
    (output # Pending /\ IsVersion(input.version)
        /\ input.level \in {"major", "minor", "patch"})
    => /\ output.raised = ""
       /\ IsVersion(output.value)
       /\ LET old == Components(input.version)
              new == Components(output.value)
          IN  CASE input.level = "major" -> new = <<old[1] + 1, 0, 0>>
                [] input.level = "minor" -> new = <<old[1], old[2] + 1, 0>>
                [] input.level = "patch" -> new = <<old[1], old[2], old[3] + 1>>

\* The minor bump of 0.9.9 has returned 0.10.0.
C3_Witness ==
    /\ input.version = <<"0", ".", "9", ".", "9">>
    /\ input.level = "minor"
    /\ output = Returned(<<"0", ".", "1", "0", ".", "0">>)

\* C4: for a string that is not three dot-separated non-negative integers
\* bump_version fails with the parse error, whatever the level; for a
\* well-formed version and a level that is none of major, minor, patch it
\* fails with the invalid-level error.
C4_MalformedRejected ==
    output # Pending =>
        /\ ~IsVersion(input.version) => output.raised = ErrVersionFormat
        /\ (IsVersion(input.version)
               /\ input.level \notin {"major", "minor", "patch"})
           => output.raised = ErrBumpLevel

\* The nearest ancestor of d, d included, that is a repository root; 0: none
RECURSIVE NearestRepo(_)
NearestRepo(d) ==
    IF d = 0 THEN 0
    ELSE IF isRepo[d] THEN d
    ELSE NearestRepo(Parent[d])

\* C5: the git_repo of every plan is the nearest ancestor directory of its
\* manifest, the manifest's own directory included, that is a repository
\* root, or None when there is none.
C5_NearestRepoAttribution ==
    \A i \in 1..Len(results) :
        results[i].git_repo = NearestRepo(results[i].file_path)

\* C6: write_tags never issues a tag-create for a tag the repository has
\* when the command is issued.
C6_TagIdempotence ==
    \A k \in 1..Len(git_ops) : git_ops[k].op = "tag" => ~git_ops[k].existed

\* C7: apply_version_bump does not return while a requested source has
\* contributed no plan.
C7_NoSourceSkipped ==
    pc = "planned" =>
        \A i \in 1..Len(args.sources) : \E j \in 1..Len(origin) : origin[j] = i

\* C8: for a source that is the path of a manifest file, apply_version_bump
\* returns exactly one plan, the plan of that file.
C8_FileSourceOnePlan ==
    pc = "planned" =>
        \A i \in 1..Len(args.sources) :
            args.sources[i].kind = "file" =>
                /\ Cardinality({j \in 1..Len(origin) : origin[j] = i}) = 1
                /\ \A j \in 1..Len(origin) :
                       origin[j] = i => results[j].file_path = args.sources[i].dir

\* C9: the plan's document equals the document read in every key and every
\* table, except project.version, which is bump_version of the old version;
\* and the plan's old_version is the version read.
C9_FrameOfPlan ==
    (output # PendingPlan /\ output.raised = "") =>
        LET doc == input.doc
            new == output.plan.toml_result
        IN  /\ output.plan.old_version = doc["project"]["version"]
            /\ DOMAIN new = DOMAIN doc
            /\ \A k \in DOMAIN doc \ {"project"} : new[k] = doc[k]
            /\ DOMAIN new["project"] = DOMAIN doc["project"]
            /\ \A k \in DOMAIN doc["project"] \ {"version"} :
                   new["project"][k] = doc["project"][k]
            /\ new["project"]["version"] =
                   BumpVersion(doc["project"]["version"], input.level).value
            /\ output.plan.new_version = new["project"]["version"]

\* A plan of a document with other tables and other project keys: 0.9.9
\* bumped to 0.9.10, tool and build and license in place.
C9_Witness ==
    /\ output # PendingPlan
    /\ output.raised = ""
    /\ input.level = "patch"
    /\ DOMAIN input.doc = {"project", "tool", "build"}
    /\ DOMAIN input.doc["project"] = {"name", "version", "license"}
    /\ output.plan.toml_result["project"]["version"] =
           <<"0", ".", "9", ".", "1", "0">>
    /\ output.plan.toml_result["project"]["version"] # input.doc["project"]["version"]

\* C10: in a dry run no temporary file is written, no manifest is renamed
\* onto, and the only git command issued is the fetch of the remote tags,
\* and only when fetching was asked for.
C10_DryRunNeverWrites ==
    args.dry_run =>
        /\ opened = {}
        /\ rename_log = <<>>
        /\ \A d \in Dirs : ~tmpfile[d].exists
        /\ \A i \in 1..Len(results) : Untouched(results[i])
        /\ \A k \in 1..Len(git_ops) :
               git_ops[k].op = "fetch" /\ args.fetch_remote_tags

\* A dry run that planned two manifests, fetched the tags, and is over.
C10_Witness ==
    /\ args.dry_run
    /\ pc = "done"
    /\ Len(results) >= 2
    /\ \E k \in 1..Len(git_ops) : git_ops[k].op = "fetch" /\ git_ops[k].ok

\* C11: the clean-repository precondition comes before any disk write: when
\* the repository of a plan has uncommitted changes, no .tmp file is ever
\* opened for writing and write_results gets no further than its staging.
C11_NoTempWhenDirty ==
    (\E i \in 1..Len(results) :
         results[i].git_repo # 0 /\ dirty[results[i].git_repo])
    => /\ opened = {}
       /\ pc \notin {"replace", "replace_failed", "commit", "tags"}

\* C12: when write_results has raised because the document of a plan could
\* not be written to its temporary file, no .tmp file remains on disk, the
\* one whose write failed part-way included, and no manifest was replaced.
C12_StageFailureLeavesNothing ==
    (pc = "raised" /\ err = ErrStage) =>
        /\ \A d \in Dirs : ~tmpfile[d].exists
        /\ \A i \in 1..Len(results) : Untouched(results[i])

\* C13, as stated: the renames are attempted in the order of the plan list,
\* the rename for plan i before the rename for plan j when i precedes j in
\* results.
C13_PlanOrder ==
    \A k, l \in 1..Len(rename_log) :
        k < l => rename_log[k].plan <= rename_log[l].plan

\* C13, amended: the renames are attempted one at a time in the reverse of
\* the order of the plan list, the rename for plan j before the rename for
\* plan i when i precedes j in results (a rename that failed is attempted
\* again before any earlier plan's).
C13_ReversePlanOrder ==
    \A k, l \in 1..Len(rename_log) :
        k < l => rename_log[k].plan >= rename_log[l].plan

\* Three plans, each renamed: the third first and the first last.
C13_Witness ==
    /\ pc = "commit"
    /\ Len(results) = 3
    /\ \E k, l, n \in 1..Len(rename_log) :
           /\ k < l /\ l < n
           /\ rename_log[k].ok /\ rename_log[l].ok /\ rename_log[n].ok
           /\ rename_log[k].plan = 3
           /\ rename_log[l].plan = 2
           /\ rename_log[n].plan = 1

\* The first os.replace write_results attempted has failed.
FirstRenameFailed == rename_log # <<>> /\ ~rename_log[1].ok

\* The one way on from a failed first rename is the raise: no manifest was
\* replaced, no other rename was attempted and no commit or push was made.
AbortsAtOnce ==
    /\ pc \in {"replace_failed", "raised"}
    /\ pc = "raised" => err = ErrReplace
    /\ Len(rename_log) = 1
    /\ \A i \in 1..Len(results) : Untouched(results[i])
    /\ \A k \in 1..Len(git_ops) : git_ops[k].op \notin {"commit", "push"}

\* C14, as stated: when the first rename attempted fails, write_results
\* raises at once, no manifest is replaced, no other rename is attempted, no
\* commit or push is made, and once it has raised every staged temporary
\* file is gone.
C14_FirstRenameFailure ==
    FirstRenameFailed =>
        /\ AbortsAtOnce
        /\ pc = "raised" =>
               \A i \in 1..Len(results) : ~tmpfile[results[i].file_path].exists

\* C14, amended: the same, but the cleanup is best effort: once
\* write_results has raised, every staged temporary file is gone except
\* those whose os.remove failed.
C14_FirstRenameFailureBestEffort ==
    FirstRenameFailed =>
        /\ AbortsAtOnce
        /\ pc = "raised" =>
               \A i \in 1..Len(results) :
                   tmpfile[results[i].file_path].exists
                       => results[i].file_path \in remove_failed

\* Three manifests staged, the first rename failed, write_results raised
\* and the cleanup removed all three temporary files.
C14_Witness ==
    /\ FirstRenameFailed
    /\ pc = "raised"
    /\ Cardinality({results[i].file_path : i \in 1..Len(results)}) = 3
    /\ remove_failed = {}
    /\ \A d \in Dirs : ~tmpfile[d].exists

\* C15: a rename that fails after an earlier rename succeeded is passed
\* over: the rename of every staged file is attempted exactly once, so no
\* plan has two entries in the log of renames; and when write_results has
\* finished with three plans of which the second attempted rename failed,
\* the log holds exactly one failure and two successes.
C15_PartialCommit ==
    /\ \A k, l \in 1..Len(rename_log) :
           k < l => rename_log[k].plan # rename_log[l].plan
    /\ ( /\ WriteResultsFinished
         /\ Len(results) = 3
         /\ Len(rename_log) >= 2
         /\ rename_log[1].ok
         /\ ~rename_log[2].ok )
       => /\ Failures(rename_log) = 1
          /\ Len(rename_log) - Failures(rename_log) = 2

\* C16: write_results always finishes: once it is called it returns or
\* raises, whichever renames fail and however often.
C16_WriteResultsFinishes == (pc = "precheck") ~> (pc \in {"tags", "raised"})

\* C17: the visit of a directory of the walk leaves git_repo_stack as it
\* found it: what the visit pushed it pops, and it pops nothing else.  (The
\* steps taken with the walk's queue not empty are the visits; those that
\* end in "walk" raised nothing.)
C17_StackRestored ==
    [][(pc = "walk" /\ queue # <<>> /\ pc' = "walk")
           => git_repo_stack' = git_repo_stack]_vars

\* doc has no project table, or no version in it, or a version that is not
\* X.Y.Z
Malformed(doc) ==
    \/ ~Has(doc, "project")
    \/ ~Has(Get(doc, "project"), "version")
    \/ ~IsVersion(Get(Get(doc, "project"), "version"))

\* The error a malformed doc is to be rejected with
ManifestError(doc) ==
    IF ~Has(doc, "project") THEN ErrNoProject
    ELSE IF ~Has(Get(doc, "project"), "version") THEN ErrNoVersion
    ELSE ErrVersionFormat

\* C18: when a manifest below the sources is malformed (or a plan was made
\* from a version that is not X.Y.Z), apply_version_bump never returns a plan
\* list: the run is still walking or has raised, with the error of the
\* malformed manifest it met; and no temporary file, manifest, commit or tag
\* is written.
C18_MalformedAborts ==
    ( \/ \E d \in Dirs : manifest[d].exists /\ Malformed(manifest[d].doc)
      \/ \E i \in 1..Len(results) : ~IsVersion(results[i].old_version) )
    => /\ pc \in {"sources", "walk", "raised"}
       /\ pc = "raised" =>
              /\ manifest[observed.dir].exists
              /\ err = ManifestError(manifest[observed.dir].doc)
       /\ opened = {}
       /\ \A d \in Dirs : ~tmpfile[d].exists
       /\ rename_log = <<>>
       /\ git_ops = <<>>

\* C19: with remote tags asked for, fetch_and_get_fetched_tags is called
\* once for each owning repository, never twice for the same one, and the
\* plans of one repository carry the same all_tags and the same
\* fetched_tags.
C19_FetchOncePerRepo ==
    args.fetch_remote_tags =>
        /\ \A k, l \in 1..Len(git_ops) :
               (k < l /\ git_ops[k].op = "fetch" /\ git_ops[l].op = "fetch")
                   => git_ops[k].repo # git_ops[l].repo
        /\ \A i, j \in 1..Len(results) :
               results[i].git_repo = results[j].git_repo
                   => /\ results[i].all_tags = results[j].all_tags
                      /\ results[i].fetched_tags = results[j].fetched_tags

\* C20: a fetch of remote tags that fails does not end the run: no
\* exception comes of it, apply_version_bump goes on, and the plans of a
\* repository whose every fetch failed carry empty tag sets.
C20_FetchFailureTolerated ==
    (\E k \in 1..Len(git_ops) : git_ops[k].op = "fetch" /\ ~git_ops[k].ok)
    => /\ err # ErrUnpack
       /\ \A i \in 1..Len(results) :
              (\A k \in 1..Len(git_ops) :
                   (git_ops[k].op = "fetch" /\ git_ops[k].repo = results[i].git_repo)
                       => ~git_ops[k].ok)
              => /\ results[i].all_tags = SomeTags({})
                 /\ results[i].fetched_tags = SomeTags({})

\* C21: a git command that fails for the repository of one plan does not
\* end the publishing: when the commit loop is over, by returning or by an
\* error, the add, commit and push were attempted in the repository of
\* every plan that has one.
C21_PublishIsolated ==
    ( /\ ~args.dry_run
      /\ \/ pc \in {"tags", "done"}
         \/ /\ pc = "raised"
            /\ err = ErrGit
            /\ \A k \in 1..Len(git_ops) : git_ops[k].op \notin {"tag", "push_tag"} )
    => \A i \in 1..Len(results) :
           results[i].git_repo # 0 =>
               \E k \in 1..Len(git_ops) :
                   /\ git_ops[k].op = "add"
                   /\ git_ops[k].repo = results[i].git_repo

\* C22: the cleanliness check is made for every plan and every repository
\* with uncommitted changes is reported before anything else is done: when
\* the staging starts, the error flag is set if the repository of any plan
\* is dirty.
C22_ViolationsCollected ==
    ( /\ pc = "stage"
      /\ idx = 1
      /\ \E i \in 1..Len(results) :
             results[i].git_repo # 0 /\ dirty[results[i].git_repo] )
    => had_write_errors

\* C23: apply_version_bump never reads the top of an empty git_repo_stack:
\* no run ends with the index error of git_repo_stack[-1].
C23_StackNeverEmptyWhenRead == err # ErrIndex

\* C24: a tag is created or pushed only when write_results has returned:
\* every temporary file has been renamed onto its manifest, and the manifest
\* of every plan that has a repository was added, committed and pushed
\* before; so no tag follows a write_results that raised.
C24_TagsAfterPublish ==
    \A k \in 1..Len(git_ops) :
        git_ops[k].op \in {"tag", "push_tag"} =>
            /\ temp_files = <<>>
            /\ \A d \in Dirs : ~tmpfile[d].exists
            /\ \A i \in 1..Len(results) : Bumped(results[i])
            /\ err \notin {ErrStage, ErrReplace}
            /\ \A i \in 1..Len(results) :
                   results[i].git_repo # 0 =>
                       \E j \in 1..(k - 1) :
                           /\ git_ops[j].op = "push"
                           /\ git_ops[j].ok
                           /\ git_ops[j].repo = results[i].git_repo
                           /\ git_ops[j].file = results[i].file_path

\* A finished run over three manifests in two repositories in which a
\* rename had to be tried twice and a tag was created and pushed.
C24_Witness ==
    /\ pc = "done"
    /\ Cardinality({results[i].file_path : i \in 1..Len(results)}) = 3
    /\ Cardinality({results[i].git_repo : i \in 1..Len(results)} \ {0}) = 2
    /\ \E k \in 1..Len(rename_log) : ~rename_log[k].ok
    /\ \E k \in 1..Len(git_ops) : git_ops[k].op = "push_tag" /\ git_ops[k].ok

\* C25: tags are created only on request: with args.git_tag unset no tag is
\* created and none is pushed.
C25_TagsOnlyOnRequest ==
    ~args.git_tag =>
        \A k \in 1..Len(git_ops) : git_ops[k].op \notin {"tag", "push_tag"}

\* C26: no manifest is planned twice: the plans hold pairwise different
\* file paths, and so do the entries of temp_files.
C26_PlannedAtMostOnce ==
    /\ \A i, j \in 1..Len(results) :
           i < j => results[i].file_path # results[j].file_path
    /\ \A i, j \in 1..Len(temp_files) :
           i < j => temp_files[i].target # temp_files[j].target

=============================================================================
